---------------------------- MODULE Spec2Model ----------------------------
(***************************************************************************)
(* Lawyer attestation and consent compliance workflow of Access Alberta    *)
(* Legal (Convex backend): validator, upsert store, audit logger, access   *)
(* guard and status reader.                                                *)
(*                                                                         *)
(* Strings that the code inspects character by character (bar number,     *)
(* legal name, version) are sequences of one-character strings.  The      *)
(* JavaScript values true / false / undefined of an optional boolean are   *)
(* the strings "true" / "false" / "undefined".  An optional document      *)
(* (null or a record) is a sequence of length 0 or 1.                      *)
(*                                                                         *)
(* Every public endpoint is a Convex query or mutation: it runs as one     *)
(* transaction, and a handler that throws commits none of its writes.      *)
(***************************************************************************)
EXTENDS Integers, Sequences, FiniteSets, TLC

VARIABLES
    attestations,     \* table "attestations": sequence of documents, index = _id
    users,            \* table "users": userType and the embedded consent
    consentAuditLog,  \* table "consentAuditLog": sequence of events in insertion order
    now,              \* Date.now()
    commits,          \* number of mutations committed so far
    lastCall,         \* the endpoint call whose response is in flight, or Idle
    lastCommit,       \* the latest committed mutation whose response was received
    tx                \* the submitAttestation transactions that are running step by step

vars == <<attestations, users, consentAuditLog, now, commits, lastCall, lastCommit, tx>>

(***************************************************************************)
(* Bounds                                                                  *)
(***************************************************************************)
MaxCommits == 2
MaxTime == 1

(***************************************************************************)
(* Characters and strings                                                  *)
(***************************************************************************)
UpperChars == <<"A","B","C","D","E","F","G","H","I","J","K","L","M",
                "N","O","P","Q","R","S","T","U","V","W","X","Y","Z">>
LowerChars == <<"a","b","c","d","e","f","g","h","i","j","k","l","m",
                "n","o","p","q","r","s","t","u","v","w","x","y","z">>
DigitChars == {"0","1","2","3","4","5","6","7","8","9"}
SpaceChars == {" "}

Range(s) == {s[i] : i \in DOMAIN s}

\* String.prototype.toUpperCase on one character
ToUpperChar(c) ==
    IF \E i \in DOMAIN LowerChars : LowerChars[i] = c
    THEN UpperChars[CHOOSE i \in DOMAIN LowerChars : LowerChars[i] = c]
    ELSE c

ToUpper(s) == [i \in DOMAIN s |-> ToUpperChar(s[i])]

\* String.prototype.trim
RECURSIVE TrimLeft(_)
TrimLeft(s) ==
    IF s # <<>> /\ Head(s) \in SpaceChars THEN TrimLeft(Tail(s)) ELSE s

RECURSIVE TrimRight(_)
TrimRight(s) ==
    IF s # <<>> /\ s[Len(s)] \in SpaceChars
    THEN TrimRight(SubSeq(s, 1, Len(s) - 1)) ELSE s

Trim(s) == TrimRight(TrimLeft(s))

\* /^[A-Z0-9]{4,10}$/.test(s)
BarNumberRegex(s) ==
    /\ Len(s) >= 4
    /\ Len(s) <= 10
    /\ \A i \in DOMAIN s : s[i] \in Range(UpperChars) \cup DigitChars

\* /^\d+\.\d+(\.\d+)?$/.test(s)
VersionRegex(s) ==
    LET dots == {i \in DOMAIN s : s[i] = "."}
    IN  /\ \A i \in DOMAIN s : s[i] \in DigitChars \cup {"."}
        /\ Cardinality(dots) \in {1, 2}
        /\ 1 \notin dots
        /\ Len(s) \notin dots
        /\ \A i \in dots : (i + 1) \notin dots

(***************************************************************************)
(* Constants of the code                                                   *)
(***************************************************************************)
ATTESTATION_SUBMITTED == "attestation_submitted"
ATTESTATION_UPDATED == "attestation_updated"
CURRENT_ATTESTATION_VERSION == <<"1", ".", "0">>

requiredTrueFields == <<"isLicensed", "isInGoodStanding", "noDisciplinaryActions",
                        "profileAccurate", "willUpdateOnChange", "understandsLiability">>

\* JavaScript truthiness of a string
Truthy(s) == s # <<>>

\* a || b on strings
OrElse(a, b) == IF Truthy(a) THEN a ELSE b

(***************************************************************************)
(* Users and callers                                                       *)
(***************************************************************************)
Users == {"lawyerA", "lawyerB", "admin1"}

\* getAuthUserId(ctx) === null
NoAuth == "null"

Callers == Users \cup {NoAuth}

\* users.userType, assigned at signup and never changed by these endpoints
userTypeOf == [u \in Users |-> IF u = "admin1" THEN "admin" ELSE "lawyer"]

\* requireUser: "" when the caller passes, else the message of the thrown error
requireUser(caller) ==
    IF caller = NoAuth THEN "Not authenticated"
    ELSE IF caller \notin Users THEN "User not found"
    ELSE ""

\* requireLawyer without the userType test
requireLawyerAnyRole(caller) == requireUser(caller)

requireLawyer(caller) ==
    IF requireUser(caller) # "" THEN requireUser(caller)
    ELSE IF users[caller].userType # "lawyer"
         THEN "Only users with the 'lawyer' role can submit an attestation."
    ELSE ""

(***************************************************************************)
(* Attestation payloads                                                    *)
(***************************************************************************)
BoolVals == {"true", "false", "undefined"}

ValidLegalName == <<"J", "o">>
ValidBarNumber == <<"A", "B", "1", "2">>
AllTrue == [f \in Range(requiredTrueFields) |-> "true"]

LegalNames == {ValidLegalName, <<>>, <<" ", " ">>}

BarNumbers == {ValidBarNumber,
               <<"a", "b", "1", "2">>,
               <<"A", "B", "1">>,
               <<"A", "B", "1", "2", "3", "4", "5", "6", "7", "8">>,
               <<"A", "B", "1", "2", "3", "4", "5", "6", "7", "8", "9", "0">>,
               <<"A", "B", "-", "2">>,
               <<" ", " ">>,
               <<>>}

Versions == {<<>>, <<"2", ".", "0", ".", "1">>, <<"v", "1">>}

AttestationTexts == {<<>>, <<"I attest">>}

\* the six booleans: all true, one field false or missing, or all false
BoolPayloads ==
    {AllTrue, [f \in Range(requiredTrueFields) |-> "false"]}
    \cup {[AllTrue EXCEPT ![f] = v] :
            f \in Range(requiredTrueFields), v \in {"false", "undefined"}}

MkPayload(n, b, v, x, bs) ==
    [legalName |-> n, barNumber |-> b, attestationVersion |-> v,
     attestationText |-> x,
     isLicensed |-> bs["isLicensed"],
     isInGoodStanding |-> bs["isInGoodStanding"],
     noDisciplinaryActions |-> bs["noDisciplinaryActions"],
     profileAccurate |-> bs["profileAccurate"],
     willUpdateOnChange |-> bs["willUpdateOnChange"],
     understandsLiability |-> bs["understandsLiability"]]

\* payloads that differ from the plain valid one in one part, and payloads
\* that violate several rules at once
AttestationPayloads ==
    {MkPayload(n, ValidBarNumber, <<>>, <<>>, AllTrue) : n \in LegalNames}
    \cup {MkPayload(ValidLegalName, b, <<>>, <<>>, AllTrue) : b \in BarNumbers}
    \cup {MkPayload(ValidLegalName, ValidBarNumber, v, <<>>, AllTrue) : v \in Versions}
    \cup {MkPayload(ValidLegalName, ValidBarNumber, <<>>, x, AllTrue) : x \in AttestationTexts}
    \cup {MkPayload(ValidLegalName, ValidBarNumber, <<>>, <<>>, bs) : bs \in BoolPayloads}
    \cup {MkPayload(<<>>, <<"A", "B", "1">>, <<"v", "1">>, <<>>,
                     [AllTrue EXCEPT !["isLicensed"] = "false"]),
          MkPayload(<<" ", " ">>, <<" ", " ">>, <<>>, <<>>,
                     [f \in Range(requiredTrueFields) |-> "false"])}

(***************************************************************************)
(* model/attestation.js                                                    *)
(***************************************************************************)
verifyLSAStanding(barNumber) == TRUE

ConfirmMsg ==
    [isLicensed |-> "isLicensed must be confirmed (true)",
     isInGoodStanding |-> "isInGoodStanding must be confirmed (true)",
     noDisciplinaryActions |-> "noDisciplinaryActions must be confirmed (true)",
     profileAccurate |-> "profileAccurate must be confirmed (true)",
     willUpdateOnChange |-> "willUpdateOnChange must be confirmed (true)",
     understandsLiability |-> "understandsLiability must be confirmed (true)"]

\* validateAttestationRequirements without the loop over requiredTrueFields
validateWithoutBooleanRule(d) ==
    (IF ~Truthy(d.legalName) \/ Trim(d.legalName) = <<>>
     THEN <<"Legal name is required">> ELSE <<>>)
    \o (IF ~Truthy(d.barNumber) \/ Trim(d.barNumber) = <<>>
        THEN <<"Bar number is required">> ELSE <<>>)
    \o (IF Truthy(d.barNumber) /\ ~BarNumberRegex(Trim(d.barNumber))
        THEN <<"Bar number must be 4-10 alphanumeric characters">> ELSE <<>>)
    \o (IF Truthy(d.attestationVersion) /\ ~VersionRegex(d.attestationVersion)
        THEN <<"Version must be in semantic version format (e.g., '1.0' or '1.0.0')">>
        ELSE <<>>)

\* validateAttestationRequirements with the boolean rule written as `=== false`
validateOnlyExplicitFalse(d) ==
    LET unconfirmed == SelectSeq(requiredTrueFields, LAMBDA f : d[f] = "false")
    IN  (IF ~Truthy(d.legalName) \/ Trim(d.legalName) = <<>>
         THEN <<"Legal name is required">> ELSE <<>>)
        \o (IF ~Truthy(d.barNumber) \/ Trim(d.barNumber) = <<>>
            THEN <<"Bar number is required">> ELSE <<>>)
        \o (IF Truthy(d.barNumber) /\ ~BarNumberRegex(Trim(d.barNumber))
            THEN <<"Bar number must be 4-10 alphanumeric characters">> ELSE <<>>)
        \o [i \in DOMAIN unconfirmed |-> ConfirmMsg[unconfirmed[i]]]
        \o (IF Truthy(d.attestationVersion) /\ ~VersionRegex(d.attestationVersion)
            THEN <<"Version must be in semantic version format (e.g., '1.0' or '1.0.0')">>
            ELSE <<>>)

\* the list `errors` built by validateAttestationRequirements; it throws iff
\* the list is not empty
validateAttestationRequirements(d) ==
    LET unconfirmed == SelectSeq(requiredTrueFields, LAMBDA f : d[f] # "true")
    IN  (IF ~Truthy(d.legalName) \/ Trim(d.legalName) = <<>>
         THEN <<"Legal name is required">> ELSE <<>>)
        \o (IF ~Truthy(d.barNumber) \/ Trim(d.barNumber) = <<>>
            THEN <<"Bar number is required">> ELSE <<>>)
        \o (IF Truthy(d.barNumber) /\ ~BarNumberRegex(Trim(d.barNumber))
            THEN <<"Bar number must be 4-10 alphanumeric characters">> ELSE <<>>)
        \o [i \in DOMAIN unconfirmed |-> ConfirmMsg[unconfirmed[i]]]
        \o (IF Truthy(d.attestationVersion) /\ ~VersionRegex(d.attestationVersion)
            THEN <<"Version must be in semantic version format (e.g., '1.0' or '1.0.0')">>
            ELSE <<>>)

\* rows of the attestations table that the by_user index finds for userId
ByUser(table, userId) == {i \in DOMAIN table : table[i].userId = userId}

\* .unique() throws when more than one row matches
UniqueThrows(table, userId) == Cardinality(ByUser(table, userId)) > 1

\* getCurrentAttestation: null (<<>>) or the document (<<doc>>)
getCurrentAttestation(table, userId) ==
    IF ByUser(table, userId) = {} THEN <<>>
    ELSE <<table[CHOOSE i \in ByUser(table, userId) : TRUE]>>

\* the document storeAttestation builds from the handler's attestationData
attestationDoc(userId, a, t) ==
    [userId |-> userId,
     legalName |-> a.legalName, barNumber |-> a.barNumber,
     attestationText |-> a.attestationText,
     isLicensed |-> a.isLicensed, isInGoodStanding |-> a.isInGoodStanding,
     noDisciplinaryActions |-> a.noDisciplinaryActions,
     profileAccurate |-> a.profileAccurate,
     willUpdateOnChange |-> a.willUpdateOnChange,
     understandsLiability |-> a.understandsLiability,
     lsaVerified |-> verifyLSAStanding(a.barNumber),
     attestedAt |-> t,
     attestationVersion |-> OrElse(a.attestationVersion, CURRENT_ATTESTATION_VERSION)]

\* ctx.db.patch(id, data): keys present in data replace the stored value, keys
\* that data omits (here only the optional attestationText) keep it
dbPatch(old, data) ==
    [data EXCEPT !.attestationText =
        IF data.attestationText = <<>> THEN old.attestationText ELSE @]

storeAttestationAlwaysInsert(table, userId, a, t) ==
    Append(table, attestationDoc(userId, a, t))

storeAttestation(table, userId, a, t) ==
    IF ByUser(table, userId) # {}
    THEN LET i == CHOOSE k \in ByUser(table, userId) : TRUE
         IN  [table EXCEPT ![i] = dbPatch(table[i], attestationDoc(userId, a, t))]
    ELSE Append(table, attestationDoc(userId, a, t))

\* logAttestationEvent that ignores isUpdate when it picks the event kind
attestationEventAlwaysSubmitted(userId, a, isUpdate, t) ==
    [userId |-> userId,
     event |-> ATTESTATION_SUBMITTED,
     version |-> OrElse(a.attestationVersion, CURRENT_ATTESTATION_VERSION),
     timestamp |-> t,
     metadata |-> [barNumber |-> a.barNumber, legalName |-> a.legalName,
                   isUpdate |-> isUpdate,
                   attestationFields |-> [f \in Range(requiredTrueFields) |-> a[f]]]]

\* the document logAttestationEvent inserts into consentAuditLog
attestationEvent(userId, a, isUpdate, t) ==
    [userId |-> userId,
     event |-> IF isUpdate THEN ATTESTATION_UPDATED ELSE ATTESTATION_SUBMITTED,
     version |-> OrElse(a.attestationVersion, CURRENT_ATTESTATION_VERSION),
     timestamp |-> t,
     metadata |-> [barNumber |-> a.barNumber, legalName |-> a.legalName,
                   isUpdate |-> isUpdate,
                   attestationFields |-> [f \in Range(requiredTrueFields) |-> a[f]]]]

\* an insert that overwrites the newest document instead of adding one
dbInsertOverwrite(table, doc) ==
    IF table = <<>> THEN <<doc>> ELSE [table EXCEPT ![Len(table)] = doc]

\* ctx.db.insert("consentAuditLog", doc)
dbInsert(table, doc) == Append(table, doc)

\* logAttestationEvent that inserts the event twice
logAttestationEventTwice(log, userId, a, isUpdate, t) ==
    dbInsert(dbInsert(log, attestationEvent(userId, a, isUpdate, t)),
             attestationEvent(userId, a, isUpdate, t))

logAttestationEvent(log, userId, a, isUpdate, t) ==
    dbInsert(log, attestationEvent(userId, a, isUpdate, t))

\* hasValidAttestation without the early return for a missing record
hasValidAttestationNoNullCheck(table, userId) ==
    \A i \in ByUser(table, userId), k \in DOMAIN requiredTrueFields :
        table[i][requiredTrueFields[k]] = "true"

hasValidAttestation(table, userId) ==
    LET attestation == getCurrentAttestation(table, userId)
    IN  IF attestation = <<>> THEN FALSE
        ELSE \A i \in DOMAIN requiredTrueFields :
                attestation[1][requiredTrueFields[i]] = "true"

canAccessAttestation(currentUserId, targetUserId, currentUserRole) ==
    IF currentUserId = targetUserId THEN TRUE
    ELSE IF currentUserRole = "admin" THEN TRUE
    ELSE FALSE

\* enforceAttestationAccess: "" when access is allowed, else the thrown message
enforceAttestationAccess(currentUserId, targetUserId, currentUserRole) ==
    IF ~canAccessAttestation(currentUserId, targetUserId, currentUserRole)
    THEN "Access denied: You can only access your own attestation data"
    ELSE ""

(***************************************************************************)
(* model/consent.ts                                                        *)
(***************************************************************************)
CONSENT_TYPES == <<"terms", "privacy", "dataProcessing", "marketing">>
REQUIRED_CONSENT_TYPES == <<"terms", "privacy", "dataProcessing">>
CURRENT_CONSENT_VERSION == <<"1", ".", "0">>

TERMS_ACCEPTED == "terms_accepted"
PRIVACY_ACCEPTED == "privacy_accepted"
CONSENT_WITHDRAWN == "consent_withdrawn"
CONSENT_UPDATED == "consent_updated"
MARKETING_OPTED_IN == "marketing_opted_in"
MARKETING_OPTED_OUT == "marketing_opted_out"

\* args of updateMyConsent: every grant is optional ("undefined" = not supplied)
NoGrant == [ty \in Range(CONSENT_TYPES) |-> "undefined"]

\* nothing supplied, one grant supplied, every grant accepted, and a refused
\* required grant together with a marketing opt-in
ConsentPayloads ==
    {NoGrant}
    \cup {[NoGrant EXCEPT ![ty] = v] : ty \in Range(CONSENT_TYPES), v \in {"true", "false"}}
    \cup {[ty \in Range(CONSENT_TYPES) |-> "true"]}
    \cup {[NoGrant EXCEPT !["terms"] = "false", !["marketing"] = "true"]}

\* the consentTypes arrays of withdrawMyConsent
WithdrawalRequests ==
    {<<>>, <<"marketing">>, <<"marketing", "marketing">>, <<"terms">>,
     <<"marketing", "terms">>, <<"terms", "marketing">>, <<"privacy", "dataProcessing">>}

Reasons == {"user_preference"}

\* the consent the signup profile callback stores
SignupConsent(m) ==
    [terms |-> "true", privacy |-> "true", dataProcessing |-> "true",
     marketing |-> m, version |-> CURRENT_CONSENT_VERSION, timestamp |-> 0]

\* a ?? b
Nullish(a, b) == IF a = "undefined" THEN b ELSE a

\* a read of the stored consent that never finds the grant
FieldOfNothing(consent, type) == "undefined"

\* currentConsent?.[type]
FieldOf(consent, type) == IF consent = <<>> THEN "undefined" ELSE consent[1][type]

\* the list `errors` built by validateConsentRequirements
\* validateConsentRequirements without the hasOwnProperty test: a required
\* grant that the payload leaves out is rejected like a refused one
validateConsentAbsentFails(consentData, version) ==
    SelectSeq(REQUIRED_CONSENT_TYPES, LAMBDA ty : consentData[ty] # "true")

validateConsentRequirements(consentData, version) ==
    LET bad == SelectSeq(REQUIRED_CONSENT_TYPES, LAMBDA ty : consentData[ty] = "false")
    IN  bad
        \o (IF Truthy(version) /\ ~VersionRegex(version)
            THEN <<"Version must be in semantic version format (e.g., '1.0' or '1.0.0')">>
            ELSE <<>>)

\* newConsent without the fallback to the stored grants
newConsentNoFallback(consentData, currentConsent, version, t) ==
    [terms |-> Nullish(consentData["terms"], "false"),
     privacy |-> Nullish(consentData["privacy"], "false"),
     dataProcessing |-> Nullish(consentData["dataProcessing"], "false"),
     marketing |-> consentData["marketing"],
     version |-> version,
     timestamp |-> t]

\* updateConsent that gives marketing the `?? false` fallback of the required
\* grants
newConsentMarketingFalse(consentData, currentConsent, version, t) ==
    [terms |-> Nullish(Nullish(consentData["terms"], FieldOf(currentConsent, "terms")), "false"),
     privacy |-> Nullish(Nullish(consentData["privacy"], FieldOf(currentConsent, "privacy")), "false"),
     dataProcessing |-> Nullish(Nullish(consentData["dataProcessing"],
                                        FieldOf(currentConsent, "dataProcessing")), "false"),
     marketing |-> Nullish(Nullish(consentData["marketing"],
                                   FieldOf(currentConsent, "marketing")), "false"),
     version |-> version,
     timestamp |-> t]

\* the newConsent object of updateConsent
newConsentOf(consentData, currentConsent, version, t) ==
    [terms |-> Nullish(Nullish(consentData["terms"], FieldOf(currentConsent, "terms")), "false"),
     privacy |-> Nullish(Nullish(consentData["privacy"], FieldOf(currentConsent, "privacy")), "false"),
     dataProcessing |-> Nullish(Nullish(consentData["dataProcessing"],
                                        FieldOf(currentConsent, "dataProcessing")), "false"),
     marketing |-> Nullish(consentData["marketing"], FieldOf(currentConsent, "marketing")),
     version |-> version,
     timestamp |-> t]

\* the document logConsentEvent inserts
consentEvent(userId, event, metadata, t) ==
    [userId |-> userId,
     event |-> event,
     version |-> IF "version" \in DOMAIN metadata
                 THEN OrElse(metadata.version, CURRENT_CONSENT_VERSION)
                 ELSE CURRENT_CONSENT_VERSION,
     timestamp |-> t,
     metadata |-> metadata]

logConsentEvent(log, userId, event, metadata, t) ==
    dbInsert(log, consentEvent(userId, event, metadata, t))

\* specificEventOf with the two marketing events exchanged
specificEventSwapped(consentType, newValue) ==
    IF consentType = "terms" /\ newValue = "true" THEN TERMS_ACCEPTED
    ELSE IF consentType = "privacy" /\ newValue = "true" THEN PRIVACY_ACCEPTED
    ELSE IF consentType = "marketing" /\ newValue = "true" THEN MARKETING_OPTED_OUT
    ELSE IF consentType = "marketing" /\ newValue \in {"false", "undefined"}
         THEN MARKETING_OPTED_IN
    ELSE CONSENT_UPDATED

\* the specific event logConsentChanges picks for one changed grant
specificEventOf(consentType, newValue) ==
    IF consentType = "terms" /\ newValue = "true" THEN TERMS_ACCEPTED
    ELSE IF consentType = "privacy" /\ newValue = "true" THEN PRIVACY_ACCEPTED
    ELSE IF consentType = "marketing" /\ newValue = "true" THEN MARKETING_OPTED_IN
    ELSE IF consentType = "marketing" /\ newValue \in {"false", "undefined"}
         THEN MARKETING_OPTED_OUT
    ELSE CONSENT_UPDATED

\* logConsentChanges without `if (oldValue === newValue) continue`
consentChangeEventsNoSkip(userId, oldConsent, newConsent, version, t) ==
    <<consentEvent(userId, CONSENT_UPDATED,
                   [version |-> version, previousConsent |-> oldConsent,
                    newConsent |-> newConsent], t)>>
    \o [i \in DOMAIN CONSENT_TYPES |->
          consentEvent(userId, specificEventOf(CONSENT_TYPES[i], newConsent[CONSENT_TYPES[i]]),
                       [version |-> version, consentType |-> CONSENT_TYPES[i],
                        previousValue |-> FieldOf(oldConsent, CONSENT_TYPES[i]),
                        newValue |-> newConsent[CONSENT_TYPES[i]],
                        action |-> "consent_type_changed"], t)]

\* the events logConsentChanges inserts, in order
consentChangeEvents(userId, oldConsent, newConsent, version, t) ==
    LET changed == SelectSeq(CONSENT_TYPES,
                       LAMBDA ty : FieldOf(oldConsent, ty) # newConsent[ty])
    IN  <<consentEvent(userId, CONSENT_UPDATED,
                       [version |-> version, previousConsent |-> oldConsent,
                        newConsent |-> newConsent], t)>>
        \o [i \in DOMAIN changed |->
              consentEvent(userId, specificEventOf(changed[i], newConsent[changed[i]]),
                           [version |-> version, consentType |-> changed[i],
                            previousValue |-> FieldOf(oldConsent, changed[i]),
                            newValue |-> newConsent[changed[i]],
                            action |-> "consent_type_changed"], t)]

logConsentChanges(log, userId, oldConsent, newConsent, version, t) ==
    log \o consentChangeEvents(userId, oldConsent, newConsent, version, t)

\* requiredBeingWithdrawn that looks at the first requested type only
requiredBeingWithdrawnFirstOnly(consentTypes) ==
    IF consentTypes # <<>> /\ Head(consentTypes) \in Range(REQUIRED_CONSENT_TYPES)
    THEN <<Head(consentTypes)>> ELSE <<>>

\* requiredBeingWithdrawn of withdrawConsent
requiredBeingWithdrawn(consentTypes) ==
    SelectSeq(consentTypes, LAMBDA ty : ty \in Range(REQUIRED_CONSENT_TYPES))

\* the event withdrawConsent inserts before it throws for a required grant
blockedWithdrawalEvent(userId, consentTypes, reason, t) ==
    consentEvent(userId, CONSENT_WITHDRAWN,
                 [reason |-> reason,
                  attemptedWithdrawal |-> requiredBeingWithdrawn(consentTypes),
                  action |-> "blocked_required_consent_withdrawal",
                  message |-> "Required consents cannot be withdrawn without account deletion"],
                 t)

\* withdrawConsent that stores marketing = false instead of deleting the key
withdrawnConsentMarketingFalse(currentConsent, consentTypes, t) ==
    [currentConsent EXCEPT
        !.marketing = IF "marketing" \in Range(consentTypes) THEN "false" ELSE @,
        !.timestamp = t]

\* the newConsent object of withdrawConsent
withdrawnConsentOf(currentConsent, consentTypes, t) ==
    [currentConsent EXCEPT
        !.marketing = IF "marketing" \in Range(consentTypes) THEN "undefined" ELSE @,
        !.timestamp = t]

\* the events the withdrawal loop inserts, one per requested entry
withdrawalEvents(userId, currentConsent, consentTypes, reason, t) ==
    [i \in DOMAIN consentTypes |->
        consentEvent(userId,
                     IF consentTypes[i] = "marketing" THEN MARKETING_OPTED_OUT
                     ELSE CONSENT_WITHDRAWN,
                     [reason |-> reason, consentType |-> consentTypes[i],
                      previousValue |-> currentConsent[consentTypes[i]],
                      action |-> "consent_withdrawn"], t)]

(***************************************************************************)
(* Audit retrieval (getConsentAuditLog, getAttestationAuditLog).  An       *)
(* optional argument is <<>> when it is not supplied and <<value>> when it *)
(* is.  Inside query.filter a field is named with q.field("name"); a bare  *)
(* string is a string value, so q.eq("event", x) compares the string       *)
(* "event" with x and q.gte("timestamp", n) compares the string            *)
(* "timestamp" with the number n, the same for every document.             *)
(***************************************************************************)
MkOptions(l, e, f, t) ==
    [limit |-> l, eventType |-> e, fromTimestamp |-> f, toTimestamp |-> t]

\* the options of getMyAttestationAuditLog (it has no eventType argument)
AttestationAuditOptions ==
    {MkOptions(<<>>, <<>>, <<>>, <<>>),
     MkOptions(<<0>>, <<>>, <<>>, <<>>),
     MkOptions(<<1>>, <<>>, <<>>, <<>>),
     MkOptions(<<>>, <<>>, <<1>>, <<>>),
     MkOptions(<<>>, <<>>, <<>>, <<1>>),
     MkOptions(<<>>, <<>>, <<1>>, <<1>>)}

\* the options of getMyConsentAuditLog
ConsentAuditOptions ==
    AttestationAuditOptions \cup {MkOptions(<<>>, <<MARKETING_OPTED_IN>>, <<>>, <<>>)}

\* `if (options.x)`: the argument is supplied and is not 0
TruthyNumber(x) == x # <<>> /\ x[1] # 0

\* values of different types compare by type, and a string sorts after
\* every number
StringGteNumber(str, n) == TRUE
StringLteNumber(str, n) == FALSE

\* the second call on the value of q.gte(...), which is an expression and has
\* no lte method
FilterThrows(options) ==
    TruthyNumber(options.fromTimestamp) /\ TruthyNumber(options.toTimestamp)

\* the timestamp filter, as it decides for one document
TimestampFilter(options, doc) ==
    IF ~(TruthyNumber(options.fromTimestamp) \/ TruthyNumber(options.toTimestamp))
    THEN TRUE
    ELSE IF TruthyNumber(options.fromTimestamp)
    THEN StringGteNumber("timestamp", options.fromTimestamp[1])
    ELSE StringLteNumber("timestamp", options.toTimestamp[1])

\* the event type filter of getConsentAuditLog
EventTypeFilter(options, doc) ==
    IF options.eventType # <<>> /\ options.eventType[1] # ""
    THEN "event" = options.eventType[1]
    ELSE TRUE

\* the filter of getAttestationAuditLog that is meant to keep attestation events
AttestationEventFilter(doc) ==
    \/ "event" = ATTESTATION_SUBMITTED
    \/ "event" = ATTESTATION_UPDATED

Timestamps(rows) == {rows[i].timestamp : i \in DOMAIN rows}

Max(S) == CHOOSE m \in S : \A x \in S : x <= m
Min(S) == CHOOSE m \in S : \A x \in S : m <= x

\* rows with the timestamps of T in ascending order; rows with the same
\* timestamp keep their order
RECURSIVE AscendingFrom(_, _)
AscendingFrom(rows, T) ==
    IF T = {} THEN <<>>
    ELSE SelectSeq(rows, LAMBDA d : d.timestamp = Min(T))
         \o AscendingFrom(rows, T \ {Min(T)})

\* results.sort((a, b) => b.timestamp - a.timestamp): a stable sort, newest
\* first; rows with the same timestamp keep their order
RECURSIVE DescendingFrom(_, _)
DescendingFrom(rows, T) ==
    IF T = {} THEN <<>>
    ELSE SelectSeq(rows, LAMBDA d : d.timestamp = Max(T))
         \o DescendingFrom(rows, T \ {Max(T)})

SortNewestFirst(rows) == DescendingFrom(rows, Timestamps(rows))

\* a collect() that does not use the by_user index range
CollectAnyUser(log, userId) == AscendingFrom(log, Timestamps(log))

\* withIndex("by_user", q => q.eq("userId", userId)).collect(): the user's
\* documents in the order of the index [userId, timestamp], and in insertion
\* order within a timestamp
CollectByUser(log, userId) ==
    LET rows == SelectSeq(log, LAMBDA d : d.userId = userId)
    IN  AscendingFrom(rows, Timestamps(rows))

\* results.slice(0, n)
Slice(rows, from, to) ==
    SubSeq(rows, from + 1, IF to < Len(rows) THEN to ELSE Len(rows))

\* `if (options.limit) results = results.slice(0, options.limit)`
ApplyLimit(rows, options) ==
    IF TruthyNumber(options.limit) THEN Slice(rows, 0, options.limit[1]) ELSE rows

getConsentAuditLog(log, userId, options) ==
    ApplyLimit(
        SortNewestFirst(
            SelectSeq(CollectByUser(log, userId),
                      LAMBDA d : TimestampFilter(options, d) /\ EventTypeFilter(options, d))),
        options)

getAttestationAuditLog(log, userId, options) ==
    ApplyLimit(
        SortNewestFirst(
            SelectSeq(CollectByUser(log, userId),
                      LAMBDA d : AttestationEventFilter(d) /\ TimestampFilter(options, d))),
        options)

(***************************************************************************)
(* Endpoint calls.  A call is taken when no response is in flight; its     *)
(* response stays in lastCall until the client has received it.            *)
(***************************************************************************)
Idle ==
    [op |-> "idle", caller |-> NoAuth, args |-> <<>>, ok |-> TRUE, error |-> "",
     errors |-> <<>>, ret |-> <<>>, txLog |-> <<>>]

Response(op, caller, args, ok, error, errors, ret, txLog) ==
    [op |-> op, caller |-> caller, args |-> args, ok |-> ok, error |-> error,
     errors |-> errors, ret |-> ret, txLog |-> txLog]

\* the handler threw: the transaction commits nothing; txLog keeps the audit
\* inserts the handler had made before it threw
Abort(op, caller, args, error, errors, txLog) ==
    /\ lastCall' = Response(op, caller, args, FALSE, error, errors, <<>>, txLog)
    /\ UNCHANGED <<attestations, users, consentAuditLog, now, commits, lastCommit, tx>>

\* a query returned
Answer(op, caller, args, ret) ==
    /\ lastCall' = Response(op, caller, args, TRUE, "", <<>>, <<ret>>, <<>>)
    /\ UNCHANGED <<attestations, users, consentAuditLog, now, commits, lastCommit, tx>>

\* the clients that run submitAttestation at the same time
Procs == {"p1", "p2"}

\* a client with no transaction running
NoTx ==
    [pc |-> "idle", caller |-> NoAuth, args |-> <<>>, startedAt |-> 0,
     snapshot |-> <<>>, view |-> <<>>, isUpdate |-> FALSE, event |-> <<>>,
     retried |-> FALSE, ok |-> FALSE, order |-> 0]

Init ==
    /\ attestations = <<>>
    /\ users = [u \in Users |->
                  [userType |-> userTypeOf[u],
                   consent |-> CASE u = "lawyerA" -> <<SignupConsent("false")>>
                                 [] u = "admin1" -> <<SignupConsent("true")>>
                                 [] OTHER -> <<>>]]
    /\ consentAuditLog = <<>>
    /\ now = 0
    /\ commits = 0
    /\ lastCall = Idle
    /\ lastCommit = Idle
    /\ tx = [p \in Procs |-> NoTx]

\* ctx.db.insert("consentAuditLog", ...) either adds the document or throws
\* (the document does not fit the table's validator, or the write is refused)
InsertOutcomes == {"inserted", "throws"}

AuditInsertError == "Failed to insert into table consentAuditLog"

\* nothing in logAttestationEvent or in the handler catches a failed audit
\* insert, so the handler throws after storeAttestation has run
SubmitAttestation(caller, args, auditInsert) ==
    /\ lastCall = Idle
    /\ LET op == "submitAttestation"
           errors == validateAttestationRequirements(args)
           isUpdate == getCurrentAttestation(attestations, caller) # <<>>
       IN  IF requireLawyer(caller) # ""
           THEN Abort(op, caller, args, requireLawyer(caller), <<>>, <<>>)
           ELSE IF errors # <<>>
           THEN Abort(op, caller, args, "Attestation validation failed", errors, <<>>)
           ELSE IF UniqueThrows(attestations, caller)
           THEN Abort(op, caller, args, "unique() query returned more than one result",
                      <<>>, <<>>)
           ELSE IF auditInsert = "throws"
           THEN Abort(op, caller, args, AuditInsertError, <<>>, <<>>)
           ELSE /\ commits < MaxCommits
                /\ attestations' = storeAttestation(attestations, caller, args, now)
                /\ consentAuditLog' =
                       logAttestationEvent(consentAuditLog, caller, args, isUpdate, now)
                /\ commits' = commits + 1
                /\ lastCall' =
                       Response(op, caller, args, TRUE, "", <<>>,
                                <<[success |-> TRUE, isUpdate |-> isUpdate,
                                   message |-> IF isUpdate
                                               THEN "Attestation updated successfully"
                                               ELSE "Attestation submitted successfully"]>>,
                                <<attestationEvent(caller, args, isUpdate, now)>>)
                /\ UNCHANGED <<users, now, lastCommit, tx>>

GetMyAttestation(caller) ==
    /\ lastCall = Idle
    /\ LET op == "getMyAttestation"
       IN  IF requireLawyer(caller) # ""
           THEN Abort(op, caller, <<>>, requireLawyer(caller), <<>>, <<>>)
           ELSE IF UniqueThrows(attestations, caller)
           THEN Abort(op, caller, <<>>, "unique() query returned more than one result",
                      <<>>, <<>>)
           ELSE Answer(op, caller, <<>>, getCurrentAttestation(attestations, caller))

CheckMyAttestationStatus(caller) ==
    /\ lastCall = Idle
    /\ LET op == "checkMyAttestationStatus"
           attestation == getCurrentAttestation(attestations, caller)
       IN  IF requireLawyer(caller) # ""
           THEN Abort(op, caller, <<>>, requireLawyer(caller), <<>>, <<>>)
           ELSE IF UniqueThrows(attestations, caller)
           THEN Abort(op, caller, <<>>, "unique() query returned more than one result",
                      <<>>, <<>>)
           ELSE Answer(op, caller, <<>>,
                       [isValid |-> hasValidAttestation(attestations, caller),
                        hasAttestation |-> attestation # <<>>,
                        attestedAt |-> [i \in DOMAIN attestation |-> attestation[i].attestedAt],
                        lsaVerified |-> [i \in DOMAIN attestation |-> attestation[i].lsaVerified]])

\* the role check of the admin queries: "" when the caller passes
adminOnlyOff(caller, message) == ""

adminOnly(caller, message) ==
    IF users[caller].userType # "admin" THEN message ELSE ""

GetAttestationByUserId(caller, userId) ==
    /\ lastCall = Idle
    /\ LET op == "getAttestationByUserId"
           args == [userId |-> userId]
       IN  IF requireUser(caller) # ""
           THEN Abort(op, caller, args, requireUser(caller), <<>>, <<>>)
           ELSE IF adminOnly(caller, "Only admins can view other users' attestations") # ""
           THEN Abort(op, caller, args,
                      adminOnly(caller, "Only admins can view other users' attestations"),
                      <<>>, <<>>)
           ELSE IF UniqueThrows(attestations, userId)
           THEN Abort(op, caller, args, "unique() query returned more than one result",
                      <<>>, <<>>)
           ELSE Answer(op, caller, args, getCurrentAttestation(attestations, userId))

UpdateMyConsent(caller, args) ==
    /\ lastCall = Idle
    /\ LET op == "updateMyConsent"
           errors == validateConsentRequirements(args, <<>>)
           version == OrElse(<<>>, CURRENT_CONSENT_VERSION)
       IN  IF requireUser(caller) # ""
           THEN Abort(op, caller, args, requireUser(caller), <<>>, <<>>)
           ELSE IF errors # <<>>
           THEN Abort(op, caller, args, "Consent validation failed", errors, <<>>)
           ELSE LET currentConsent == users[caller].consent
                    newConsent == newConsentOf(args, currentConsent, version, now)
                IN  /\ commits < MaxCommits
                    /\ users' = [users EXCEPT ![caller].consent = <<newConsent>>]
                    /\ consentAuditLog' =
                           logConsentChanges(consentAuditLog, caller, currentConsent,
                                             newConsent, version, now)
                    /\ commits' = commits + 1
                    /\ lastCall' =
                           Response(op, caller, args, TRUE, "", <<>>, <<newConsent>>,
                                    consentChangeEvents(caller, currentConsent,
                                                        newConsent, version, now))
                    /\ UNCHANGED <<attestations, now, lastCommit, tx>>

WithdrawMyConsent(caller, consentTypes, reason) ==
    /\ lastCall = Idle
    /\ LET op == "withdrawMyConsent"
           args == [consentTypes |-> consentTypes, reason |-> reason]
       IN  IF requireUser(caller) # ""
           THEN Abort(op, caller, args, requireUser(caller), <<>>, <<>>)
           ELSE IF users[caller].consent = <<>>
           THEN Abort(op, caller, args, "No consent record found for user", <<>>, <<>>)
           ELSE IF requiredBeingWithdrawn(consentTypes) # <<>>
           THEN Abort(op, caller, args, "Cannot withdraw required consents", <<>>,
                      <<blockedWithdrawalEvent(caller, consentTypes, reason, now)>>)
           ELSE LET currentConsent == users[caller].consent[1]
                    newConsent == withdrawnConsentOf(currentConsent, consentTypes, now)
                    events == withdrawalEvents(caller, currentConsent, consentTypes,
                                               reason, now)
                IN  /\ commits < MaxCommits
                    /\ users' = [users EXCEPT ![caller].consent = <<newConsent>>]
                    /\ consentAuditLog' = consentAuditLog \o events
                    /\ commits' = commits + 1
                    /\ lastCall' = Response(op, caller, args, TRUE, "", <<>>,
                                            <<newConsent>>, events)
                    /\ UNCHANGED <<attestations, now, lastCommit, tx>>

\* `{ limit = 50, offset = 0, lsaVerified }`
DefaultLimit == 50
DefaultOffset == 0

Default(x, d) == IF x = <<>> THEN d ELSE x[1]

MkListing(l, o, v) == [limit |-> l, offset |-> o, lsaVerified |-> v]

\* the arguments of getAllAttestations tried: the defaults, pages of one and
\* of two records at several offsets, and the verification filter
ListingArgs ==
    {MkListing(<<>>, <<>>, <<>>),
     MkListing(<<1>>, <<>>, <<>>),
     MkListing(<<1>>, <<1>>, <<>>),
     MkListing(<<1>>, <<2>>, <<>>),
     MkListing(<<2>>, <<1>>, <<>>),
     MkListing(<<1>>, <<>>, <<TRUE>>),
     MkListing(<<>>, <<>>, <<FALSE>>)}

AttestedAts(rows) == {rows[i].attestedAt : i \in DOMAIN rows}

\* results.sort((a, b) => b.attestedAt - a.attestedAt): a stable sort
RECURSIVE NewestAttestedFrom(_, _)
NewestAttestedFrom(rows, T) ==
    IF T = {} THEN <<>>
    ELSE SelectSeq(rows, LAMBDA d : d.attestedAt = Max(T))
         \o NewestAttestedFrom(rows, T \ {Max(T)})

\* query.collect(), through the by_lsaVerified index when the flag is given
CollectAttestations(table, lsaVerified) ==
    IF lsaVerified # <<>>
    THEN SelectSeq(table, LAMBDA d : d.lsaVerified = lsaVerified[1])
    ELSE table

\* getAllAttestations with hasMore computed as offset + limit <= total
getAllAttestationsOffByOne(table, args) ==
    LET limit == Default(args.limit, DefaultLimit)
        offset == Default(args.offset, DefaultOffset)
        results == CollectAttestations(table, args.lsaVerified)
    IN  [attestations |-> Slice(NewestAttestedFrom(results, AttestedAts(results)),
                                offset, offset + limit),
         total |-> Len(results),
         hasMore |-> offset + limit <= Len(results)]

\* the value the handler of getAllAttestations returns to an admin
getAllAttestations(table, args) ==
    LET limit == Default(args.limit, DefaultLimit)
        offset == Default(args.offset, DefaultOffset)
        results == CollectAttestations(table, args.lsaVerified)
    IN  [attestations |-> Slice(NewestAttestedFrom(results, AttestedAts(results)),
                                offset, offset + limit),
         total |-> Len(results),
         hasMore |-> offset + limit < Len(results)]

GetAllAttestations(caller, args) ==
    /\ lastCall = Idle
    /\ LET op == "getAllAttestations"
       IN  IF requireUser(caller) # ""
           THEN Abort(op, caller, args, requireUser(caller), <<>>, <<>>)
           ELSE IF adminOnly(caller, "Only admins can view all attestations") # ""
           THEN Abort(op, caller, args,
                      adminOnly(caller, "Only admins can view all attestations"),
                      <<>>, <<>>)
           ELSE Answer(op, caller, args, getAllAttestations(attestations, args))

GetMyConsentAuditLog(caller, options) ==
    /\ lastCall = Idle
    /\ LET op == "getMyConsentAuditLog"
       IN  IF requireUser(caller) # ""
           THEN Abort(op, caller, options, requireUser(caller), <<>>, <<>>)
           ELSE IF FilterThrows(options)
           THEN Abort(op, caller, options, "filter.lte is not a function", <<>>, <<>>)
           ELSE Answer(op, caller, options,
                       getConsentAuditLog(consentAuditLog, caller, options))

\* getCurrentConsent: `user.consent || null`
getCurrentConsent(table, userId) == table[userId].consent

GetMyConsent(caller) ==
    /\ lastCall = Idle
    /\ LET op == "getMyConsent"
       IN  IF requireUser(caller) # ""
           THEN Abort(op, caller, <<>>, requireUser(caller), <<>>, <<>>)
           ELSE Answer(op, caller, <<>>, getCurrentConsent(users, caller))

GetMyAttestationAuditLog(caller, options) ==
    /\ lastCall = Idle
    /\ LET op == "getMyAttestationAuditLog"
       IN  IF requireLawyer(caller) # ""
           THEN Abort(op, caller, options, requireLawyer(caller), <<>>, <<>>)
           ELSE IF FilterThrows(options)
           THEN Abort(op, caller, options, "filter.lte is not a function", <<>>, <<>>)
           ELSE Answer(op, caller, options,
                       getAttestationAuditLog(consentAuditLog, caller, options))

Mutations == {"submitAttestation", "updateMyConsent", "withdrawMyConsent"}

\* the client receives the response
Return ==
    /\ lastCall # Idle
    /\ lastCall' = Idle
    /\ lastCommit' = IF lastCall.ok /\ lastCall.op \in Mutations THEN lastCall ELSE lastCommit
    /\ UNCHANGED <<attestations, users, consentAuditLog, now, commits, tx>>

\* the wall clock advances between calls; inside one call Date.now() is fixed
Tick ==
    /\ lastCall = Idle
    /\ now < MaxTime
    /\ now' = now + 1
    /\ UNCHANGED <<attestations, users, consentAuditLog, commits, lastCall, lastCommit, tx>>

Next ==
    \/ \E c \in Callers, a \in AttestationPayloads, o \in InsertOutcomes :
            SubmitAttestation(c, a, o)
    \/ \E c \in Callers : GetMyAttestation(c)
    \/ \E c \in Callers : CheckMyAttestationStatus(c)
    \/ \E c \in Callers, u \in Users : GetAttestationByUserId(c, u)
    \/ \E c \in Callers, a \in ListingArgs : GetAllAttestations(c, a)
    \/ \E c \in Callers, a \in ConsentPayloads : UpdateMyConsent(c, a)
    \/ \E c \in Callers, w \in WithdrawalRequests, r \in Reasons :
            WithdrawMyConsent(c, w, r)
    \/ \E c \in Callers : GetMyConsent(c)
    \/ \E c \in Callers, o \in ConsentAuditOptions : GetMyConsentAuditLog(c, o)
    \/ \E c \in Callers, o \in AttestationAuditOptions : GetMyAttestationAuditLog(c, o)
    \/ Return
    \/ Tick

Spec == Init /\ [][Next]_vars

\* the mutations and the audit log queries
NextAudit ==
    \/ \E c \in Users, a \in AttestationPayloads, o \in InsertOutcomes :
            SubmitAttestation(c, a, o)
    \/ \E c \in Users, a \in ConsentPayloads : UpdateMyConsent(c, a)
    \/ \E c \in Users, w \in WithdrawalRequests, r \in Reasons :
            WithdrawMyConsent(c, w, r)
    \/ \E c \in Callers, o \in ConsentAuditOptions : GetMyConsentAuditLog(c, o)
    \/ \E c \in Callers, o \in AttestationAuditOptions : GetMyAttestationAuditLog(c, o)
    \/ Return
    \/ Tick

SpecAudit == Init /\ [][NextAudit]_vars

\* the attestation endpoints alone
NextAttestation ==
    \/ \E c \in Callers, a \in AttestationPayloads, o \in InsertOutcomes :
            SubmitAttestation(c, a, o)
    \/ \E c \in Callers : GetMyAttestation(c)
    \/ \E c \in Callers : CheckMyAttestationStatus(c)
    \/ \E c \in Callers, u \in Users : GetAttestationByUserId(c, u)
    \/ \E c \in Callers, a \in ListingArgs : GetAllAttestations(c, a)
    \/ \E c \in Callers, o \in AttestationAuditOptions : GetMyAttestationAuditLog(c, o)
    \/ Return
    \/ Tick

SpecAttestation == Init /\ [][NextAttestation]_vars

\* the consent mutations alone
NextConsent ==
    \/ \E c \in Callers, a \in ConsentPayloads : UpdateMyConsent(c, a)
    \/ \E c \in Callers, w \in WithdrawalRequests, r \in Reasons :
            WithdrawMyConsent(c, w, r)
    \/ Return
    \/ Tick

SpecConsent == Init /\ [][NextConsent]_vars

\* the inputs of the isolation runs: a valid and an invalid attestation, a
\* marketing opt-in and a refused required grant, a marketing withdrawal and
\* a blocked one, audit reads without options and with a limit
IsolationAttestations ==
    {MkPayload(ValidLegalName, ValidBarNumber, <<>>, <<>>, AllTrue),
     MkPayload(<<>>, ValidBarNumber, <<>>, <<>>, AllTrue)}

IsolationConsents ==
    {[NoGrant EXCEPT !["marketing"] = "true"], [NoGrant EXCEPT !["terms"] = "false"]}

IsolationWithdrawals == {<<"marketing">>, <<"marketing", "terms">>}

IsolationOptions == {MkOptions(<<>>, <<>>, <<>>, <<>>), MkOptions(<<1>>, <<>>, <<>>, <<>>)}

\* the three mutations and the "my" queries, run by every caller
NextIsolation ==
    \/ \E c \in Callers, a \in IsolationAttestations, o \in InsertOutcomes :
            SubmitAttestation(c, a, o)
    \/ \E c \in Callers, a \in IsolationConsents : UpdateMyConsent(c, a)
    \/ \E c \in Callers, w \in IsolationWithdrawals, r \in Reasons :
            WithdrawMyConsent(c, w, r)
    \/ \E c \in Callers : GetMyAttestation(c)
    \/ \E c \in Callers : CheckMyAttestationStatus(c)
    \/ \E c \in Callers : GetMyConsent(c)
    \/ \E c \in Callers, o \in IsolationOptions : GetMyConsentAuditLog(c, o)
    \/ \E c \in Callers, o \in IsolationOptions : GetMyAttestationAuditLog(c, o)
    \/ Return
    \/ Tick

SpecIsolation == Init /\ [][NextIsolation]_vars

(***************************************************************************)
(* submitAttestation step by step.  Two clients run the handler at the     *)
(* same time; each run is a transaction that reads from the snapshot taken *)
(* when it starts, buffers its writes, and commits only if the rows it     *)
(* read are still what it read; otherwise the function is run again.       *)
(***************************************************************************)
\* payloads of the concurrent clients: two valid ones that differ in the
\* version, and one that fails validation
ConcurrentPayloads ==
    {MkPayload(ValidLegalName, ValidBarNumber, v, <<>>, AllTrue) :
        v \in {<<>>, <<"2", ".", "0", ".", "1">>}}
    \cup {MkPayload(<<>>, ValidBarNumber, <<>>, <<>>, AllTrue)}

Running == {p \in Procs : tx[p].pc \in {"lookup", "store", "log", "commit"}}

\* requireLawyer and validateAttestationRequirements (steps 1 to 3)
BeginSubmit(p, caller, args) ==
    /\ tx[p].pc = "idle"
    /\ lastCall = Idle
    /\ commits + Cardinality(Running) < MaxCommits
    /\ tx' = [tx EXCEPT ![p] =
                IF requireLawyer(caller) # "" \/ validateAttestationRequirements(args) # <<>>
                THEN [NoTx EXCEPT !.pc = "done", !.caller = caller, !.args = args]
                ELSE [NoTx EXCEPT !.pc = "lookup", !.caller = caller, !.args = args,
                                  !.startedAt = now, !.snapshot = attestations,
                                  !.view = attestations]]
    /\ UNCHANGED <<attestations, users, consentAuditLog, now, commits, lastCall, lastCommit>>

\* step 4: getCurrentAttestation and isUpdate
LookupStep(p) ==
    /\ tx[p].pc = "lookup"
    /\ tx' = [tx EXCEPT ![p].pc = "store",
                        ![p].isUpdate = getCurrentAttestation(tx[p].view, tx[p].caller) # <<>>]
    /\ UNCHANGED <<attestations, users, consentAuditLog, now, commits, lastCall, lastCommit>>

\* step 5: storeAttestation, with its own lookup, on the transaction's view
StoreStep(p) ==
    /\ tx[p].pc = "store"
    /\ tx' = [tx EXCEPT ![p].pc = "log",
                        ![p].view = storeAttestation(tx[p].view, tx[p].caller, tx[p].args,
                                                     tx[p].startedAt)]
    /\ UNCHANGED <<attestations, users, consentAuditLog, now, commits, lastCall, lastCommit>>

\* step 6: logAttestationEvent; a failed insert throws out of the handler
LogStep(p, auditInsert) ==
    /\ tx[p].pc = "log"
    /\ tx' = [tx EXCEPT ![p] =
                IF auditInsert = "throws"
                THEN [@ EXCEPT !.pc = "done", !.view = tx[p].snapshot]
                ELSE [@ EXCEPT !.pc = "commit",
                               !.event = <<attestationEvent(tx[p].caller, tx[p].args,
                                                            tx[p].isUpdate, tx[p].startedAt)>>]]
    /\ UNCHANGED <<attestations, users, consentAuditLog, now, commits, lastCall, lastCommit>>

\* the rows of the by_user index range that the transaction read
ReadSet(table, userId) == {<<i, table[i]>> : i \in ByUser(table, userId)}

\* isolation off: a transaction commits whatever the others have committed
ConflictsNever(p) == FALSE

\* another transaction has committed a change to the rows this one read
Conflicts(p) ==
    ReadSet(attestations, tx[p].caller) # ReadSet(tx[p].snapshot, tx[p].caller)

\* the buffered writes of a transaction, applied to the committed table
ApplyWrites(table, snapshot, view) ==
    IF Len(view) > Len(snapshot)
    THEN Append(table, view[Len(view)])
    ELSE [i \in DOMAIN table |->
            IF i \in DOMAIN view /\ view[i] # snapshot[i] THEN view[i] ELSE table[i]]

\* the transaction commits, or is run again from a new snapshot when it
\* conflicts with a write committed since it started
CommitStep(p) ==
    /\ tx[p].pc = "commit"
    /\ IF Conflicts(p)
       THEN /\ tx' = [tx EXCEPT ![p] =
                        [NoTx EXCEPT !.pc = "lookup", !.caller = tx[p].caller,
                                     !.args = tx[p].args, !.startedAt = now,
                                     !.snapshot = attestations, !.view = attestations,
                                     !.retried = TRUE]]
            /\ UNCHANGED <<attestations, consentAuditLog, commits>>
       ELSE /\ attestations' = ApplyWrites(attestations, tx[p].snapshot, tx[p].view)
            /\ consentAuditLog' = consentAuditLog \o tx[p].event
            /\ commits' = commits + 1
            /\ tx' = [tx EXCEPT ![p].pc = "done", ![p].ok = TRUE,
                                ![p].order = commits + 1]
    /\ UNCHANGED <<users, now, lastCall, lastCommit>>

\* the client receives the result
ReceiveStep(p) ==
    /\ tx[p].pc = "done"
    /\ tx' = [tx EXCEPT ![p] = NoTx]
    /\ UNCHANGED <<attestations, users, consentAuditLog, now, commits, lastCall, lastCommit>>

NextConcurrent ==
    \/ \E p \in Procs, c \in Callers, a \in ConcurrentPayloads : BeginSubmit(p, c, a)
    \/ \E p \in Procs : LookupStep(p)
    \/ \E p \in Procs : StoreStep(p)
    \/ \E p \in Procs, o \in InsertOutcomes : LogStep(p, o)
    \/ \E p \in Procs : CommitStep(p)
    \/ \E p \in Procs : ReceiveStep(p)
    \/ Tick

SpecConcurrent == Init /\ [][NextConcurrent]_vars

(***************************************************************************)
(* Properties                                                              *)
(***************************************************************************)
\* a call of `op` has just been answered
Called(op) == lastCall.op = op

\* the caller is an authenticated user with the lawyer role
ByLawyer(call) == call.caller \in Users /\ users[call.caller].userType = "lawyer"

\* some required attestation boolean of the payload is missing or not true
LacksRequiredBoolean(d) == \E i \in DOMAIN requiredTrueFields : d[requiredTrueFields[i]] # "true"

EventKinds(events) == {events[i].event : i \in DOMAIN events}

\* the grants for which `events` holds a per-field event
FieldEventTypes(events) ==
    {events[i].metadata.consentType :
        i \in {k \in DOMAIN events : "consentType" \in DOMAIN events[k].metadata}}

OwnersWithRecord(table) == {table[i].userId : i \in DOMAIN table}

\* C1: a submitAttestation by a lawyer whose payload lacks a required boolean
\* (missing or not true) fails, and the attestations table is the same after
\* the call as before it.
C1_MissingBooleanRejected ==
    [][(/\ lastCall = Idle
        /\ lastCall'.op = "submitAttestation"
        /\ ByLawyer(lastCall')
        /\ LacksRequiredBoolean(lastCall'.args))
       => (~lastCall'.ok /\ attestations' = attestations)]_vars

C1_Witness ==
    /\ Called("submitAttestation")
    /\ ByLawyer(lastCall)
    /\ lastCall.args.isInGoodStanding = "undefined"
    /\ lastCall.args.legalName = ValidLegalName
    /\ lastCall.args.barNumber = ValidBarNumber
    /\ ~lastCall.ok
    /\ lastCall.caller \in OwnersWithRecord(attestations)

\* C2: every owner has at most one attestation record; a successful
\* submission returns isUpdate = false exactly when the owner had no record
\* before it (the first one) and isUpdate = true otherwise, it leaves the
\* owner with a record, and an owner who has a record keeps one.
C2_OneRecordPerOwner ==
    [][/\ \A u \in Users : Cardinality(ByUser(attestations', u)) <= 1
       /\ OwnersWithRecord(attestations) \subseteq OwnersWithRecord(attestations')
       /\ (lastCall = Idle /\ lastCall'.op = "submitAttestation" /\ lastCall'.ok)
            => /\ lastCall'.ret[1].isUpdate
                    = (lastCall'.caller \in OwnersWithRecord(attestations))
               /\ lastCall'.caller \in OwnersWithRecord(attestations')]_vars

C2_Witness ==
    /\ Called("submitAttestation")
    /\ lastCall.ok
    /\ lastCall.ret[1].isUpdate
    /\ lastCommit.op = "submitAttestation"
    /\ lastCommit.caller = lastCall.caller
    /\ ~lastCommit.ret[1].isUpdate
    /\ Cardinality(ByUser(attestations, lastCall.caller)) = 1

\* C3 (as claimed): a withdrawMyConsent by a user with a consent record that
\* requests a required grant fails, and after the call the audit log ends
\* with the blocked-withdrawal event that the handler inserted.
C3_BlockedWithdrawalLogged ==
    (/\ Called("withdrawMyConsent")
     /\ lastCall.caller \in Users
     /\ users[lastCall.caller].consent # <<>>
     /\ requiredBeingWithdrawn(lastCall.args.consentTypes) # <<>>)
    => /\ ~lastCall.ok
       /\ consentAuditLog # <<>>
       /\ consentAuditLog[Len(consentAuditLog)].userId = lastCall.caller
       /\ consentAuditLog[Len(consentAuditLog)].event = CONSENT_WITHDRAWN
       /\ consentAuditLog[Len(consentAuditLog)].metadata.action
            = "blocked_required_consent_withdrawal"

\* C4: a required grant that is true in a user's stored consent is true in
\* the next state, whatever call is made.
C4_RequiredGrantStaysTrue ==
    [][\A u \in Users, i \in DOMAIN REQUIRED_CONSENT_TYPES :
          (users[u].consent # <<>> /\ users[u].consent[1][REQUIRED_CONSENT_TYPES[i]] = "true")
          => (users'[u].consent # <<>>
              /\ users'[u].consent[1][REQUIRED_CONSENT_TYPES[i]] = "true")]_vars

C4_Witness ==
    /\ lastCall.op \in {"updateMyConsent", "withdrawMyConsent"}
    /\ lastCall.ok
    /\ lastCall.txLog # <<>>
    /\ MARKETING_OPTED_OUT \in EventKinds(lastCall.txLog)
    /\ users[lastCall.caller].consent[1].marketing # "true"
    /\ \A i \in DOMAIN REQUIRED_CONSENT_TYPES :
          users[lastCall.caller].consent[1][REQUIRED_CONSENT_TYPES[i]] = "true"

OnlyMarketing(v) == [NoGrant EXCEPT !["marketing"] = v]

\* the call just answered is a successful updateMyConsent({marketing:false})
\* that follows a successful updateMyConsent({marketing:true}) of the same user
OptInThenOptOut ==
    /\ Called("updateMyConsent")
    /\ lastCall.ok
    /\ lastCall.args = OnlyMarketing("false")
    /\ lastCommit.op = "updateMyConsent"
    /\ lastCommit.caller = lastCall.caller
    /\ lastCommit.args = OnlyMarketing("true")

\* what C5 promises of the two calls
OptInThenOptOutLogged ==
    /\ MARKETING_OPTED_IN \in EventKinds(lastCommit.txLog)
    /\ MARKETING_OPTED_OUT \in EventKinds(lastCall.txLog)
    /\ FieldEventTypes(lastCommit.txLog) \cap Range(REQUIRED_CONSENT_TYPES) = {}
    /\ FieldEventTypes(lastCall.txLog) \cap Range(REQUIRED_CONSENT_TYPES) = {}
    /\ Len(consentAuditLog) >= Len(lastCommit.txLog) + Len(lastCall.txLog)
    /\ SubSeq(consentAuditLog,
              Len(consentAuditLog) - Len(lastCommit.txLog) - Len(lastCall.txLog) + 1,
              Len(consentAuditLog)) = lastCommit.txLog \o lastCall.txLog

\* the consent stored before the first of the two calls
ConsentBeforeOptIn == lastCommit.txLog[1].metadata.previousConsent

\* C5 (as claimed): for any prior consent state, updateMyConsent({marketing:true})
\* followed by updateMyConsent({marketing:false}) appends marketing_opted_in and
\* then marketing_opted_out, and no per-field event for a required grant.
C5_AnyPriorState == OptInThenOptOut => OptInThenOptOutLogged

\* the marketing grant stored before the first of the two calls
MarketingBeforeOptIn == FieldOf(ConsentBeforeOptIn, "marketing")

\* C5 (amended): the opt-out call always appends marketing_opted_out and no
\* per-field event for a required grant; the opt-in call appends
\* marketing_opted_in exactly when the stored marketing grant was not already
\* true, and per-field events for required grants exactly when the user had no
\* consent record (they go from absent to false); the log ends with the events
\* of the two calls in call order.
C5_OptInThenOptOut ==
    OptInThenOptOut =>
        /\ MARKETING_OPTED_OUT \in EventKinds(lastCall.txLog)
        /\ FieldEventTypes(lastCall.txLog) \cap Range(REQUIRED_CONSENT_TYPES) = {}
        /\ (MARKETING_OPTED_IN \in EventKinds(lastCommit.txLog))
               <=> (MarketingBeforeOptIn # "true")
        /\ (FieldEventTypes(lastCommit.txLog) \cap Range(REQUIRED_CONSENT_TYPES) = {})
               <=> (ConsentBeforeOptIn # <<>>)
        /\ (ConsentBeforeOptIn = <<>>)
               => (FieldEventTypes(lastCommit.txLog) = Range(CONSENT_TYPES))
        /\ Len(consentAuditLog) >= Len(lastCommit.txLog) + Len(lastCall.txLog)
        /\ SubSeq(consentAuditLog,
                  Len(consentAuditLog) - Len(lastCommit.txLog) - Len(lastCall.txLog) + 1,
                  Len(consentAuditLog)) = lastCommit.txLog \o lastCall.txLog

C5_Witness ==
    /\ OptInThenOptOut
    /\ ConsentBeforeOptIn # <<>>
    /\ ConsentBeforeOptIn[1].marketing = "false"
    /\ OptInThenOptOutLogged

\* the payload is valid apart, perhaps, from its bar number
ValidButForBarNumber(d) ==
    /\ d.legalName = ValidLegalName
    /\ ~LacksRequiredBoolean(d)
    /\ (Truthy(d.attestationVersion) => VersionRegex(d.attestationVersion))

\* C6 (as claimed): the validator upper-cases the bar number before checking
\* it: a submission by a lawyer that is valid apart from its bar number is
\* accepted iff the upper-cased bar number is 4 to 10 characters from A-Z
\* and 0-9 (so "ab12" is accepted, "AB1" and "AB1234567890" are rejected).
C6_BarNumberUpperCased ==
    (Called("submitAttestation") /\ ByLawyer(lastCall)
        /\ ValidButForBarNumber(lastCall.args))
    => (lastCall.ok <=> BarNumberRegex(ToUpper(lastCall.args.barNumber)))

\* C7: through getAttestationByUserId a caller who is not an admin and asks
\* for another owner's attestation gets an error and no result, and an admin
\* gets the owner's record, or null when the owner has none.
C7_ByOwnerReadAdminOnly ==
    (Called("getAttestationByUserId") /\ lastCall.caller \in Users)
    => /\ (users[lastCall.caller].userType # "admin"
            /\ lastCall.caller # lastCall.args.userId)
           => (~lastCall.ok /\ lastCall.error # "" /\ lastCall.ret = <<>>)
       /\ users[lastCall.caller].userType = "admin"
           => /\ lastCall.ok
              /\ Len(lastCall.ret) = 1
              /\ IF lastCall.args.userId \in OwnersWithRecord(attestations)
                 THEN /\ Len(lastCall.ret[1]) = 1
                      /\ lastCall.ret[1][1].userId = lastCall.args.userId
                      /\ lastCall.ret[1][1] \in Range(attestations)
                 ELSE lastCall.ret[1] = <<>>

C7_Witness ==
    /\ Called("getAttestationByUserId")
    /\ lastCall.caller = "lawyerB"
    /\ lastCall.args.userId = "lawyerA"
    /\ "lawyerA" \in OwnersWithRecord(attestations)
    /\ ~lastCall.ok

\* C8 (as claimed): a read that names a target owner is allowed exactly when
\* the caller is that owner or has the admin role; in particular an owner
\* reading their own attestation is not denied.
C8_OwnerOrAdminMayRead ==
    (Called("getAttestationByUserId") /\ lastCall.caller \in Users)
    => (lastCall.ok <=> (lastCall.caller = lastCall.args.userId
                         \/ users[lastCall.caller].userType = "admin"))

\* C9: checkMyAttestationStatus answers hasAttestation = true iff the caller
\* has an attestation record, and isValid = true iff the caller has a record
\* on which all six required booleans are true.
C9_StatusMatchesRecord ==
    (Called("checkMyAttestationStatus") /\ lastCall.ok)
    => /\ lastCall.ret[1].hasAttestation
            = (lastCall.caller \in OwnersWithRecord(attestations))
       /\ lastCall.ret[1].isValid
            = (\E i \in DOMAIN attestations :
                 /\ attestations[i].userId = lastCall.caller
                 /\ ~LacksRequiredBoolean(attestations[i]))

C9_Witness ==
    /\ Called("checkMyAttestationStatus")
    /\ lastCall.ok
    /\ lastCall.caller \notin OwnersWithRecord(attestations)
    /\ attestations # <<>>
    /\ ~lastCall.ret[1].isValid
    /\ ~lastCall.ret[1].hasAttestation

\* C10: the audit log is append-only: every event of the log is at the same
\* position, with the same owner, kind, version, timestamp and metadata, in
\* the next state.
C10_AuditLogAppendOnly ==
    [][/\ Len(consentAuditLog') >= Len(consentAuditLog)
       /\ \A i \in DOMAIN consentAuditLog : consentAuditLog'[i] = consentAuditLog[i]]_vars

C10_Witness ==
    /\ Len(consentAuditLog) >= 3
    /\ ATTESTATION_SUBMITTED \in EventKinds(consentAuditLog)
    /\ MARKETING_OPTED_OUT \in EventKinds(consentAuditLog)
    /\ Called("withdrawMyConsent")
    /\ lastCall.ok

\* the payload fields of an attestation record
PayloadFields ==
    {"legalName", "barNumber", "attestationText"} \cup Range(requiredTrueFields)

\* C11: after a successful resubmission every payload field of the owner's
\* record comes from the new payload: an optional field that the new payload
\* omits is not on the record (old and new values are not merged).
C11_ResubmissionReplacesWholesale ==
    (Called("submitAttestation") /\ lastCall.ok /\ lastCall.ret[1].isUpdate)
    => LET stored == getCurrentAttestation(attestations, lastCall.caller)[1]
       IN  /\ \A f \in PayloadFields : stored[f] = lastCall.args[f]
           /\ stored.attestationVersion
                = OrElse(lastCall.args.attestationVersion, CURRENT_ATTESTATION_VERSION)

\* C12: when the audit insert fails after the attestation record was
\* written, submitAttestation still answers with success and the caller's
\* record holds the submitted payload.
C12_AuditFailureCaught ==
    (Called("submitAttestation") /\ lastCall.error = AuditInsertError)
    => /\ lastCall.ok
       /\ getCurrentAttestation(attestations, lastCall.caller) # <<>>
       /\ getCurrentAttestation(attestations, lastCall.caller)[1].legalName
            = lastCall.args.legalName

\* the record of `p`'s caller holds what `p` wrote
HoldsWriteOf(p) ==
    LET stored == getCurrentAttestation(attestations, tx[p].caller)
    IN  /\ stored # <<>>
        /\ stored[1].attestationVersion
             = OrElse(tx[p].args.attestationVersion, CURRENT_ATTESTATION_VERSION)
        /\ stored[1].legalName = tx[p].args.legalName
        /\ stored[1].attestedAt = tx[p].startedAt

\* C13: however the lookup and write steps of concurrent submitAttestation
\* calls interleave, no owner ever has two attestation records, and the
\* owner's single record holds the write that committed last.
C13_NoDuplicateUnderInterleaving ==
    /\ \A u \in Users : Cardinality(ByUser(attestations, u)) <= 1
    /\ \A p \in Procs :
          (tx[p].pc = "done" /\ tx[p].ok /\ tx[p].order = commits) => HoldsWriteOf(p)

\* both clients submitted for the same owner, the second one looked up and
\* wrote before the first one committed, and both have finished
C13_Witness ==
    /\ \A p \in Procs : tx[p].pc = "done" /\ tx[p].ok
    /\ tx["p1"].caller = tx["p2"].caller
    /\ tx["p1"].args # tx["p2"].args
    /\ tx["p2"].retried
    /\ tx["p2"].order > tx["p1"].order
    /\ Cardinality(ByUser(attestations, tx["p2"].caller)) = 1
    /\ HoldsWriteOf("p2")

\* the rules an attestation payload violates: blank legal name, blank or
\* ill-formed bar number (4 to 10 of A-Z and 0-9 once upper-cased), each
\* required boolean that is not true, ill-formed version
ViolatedRules(d) ==
    (IF Trim(d.legalName) = <<>> THEN {"legalName"} ELSE {})
    \cup (IF ~BarNumberRegex(ToUpper(Trim(d.barNumber))) THEN {"barNumber"} ELSE {})
    \cup {f \in Range(requiredTrueFields) : d[f] # "true"}
    \cup (IF d.attestationVersion # <<>> /\ ~VersionRegex(d.attestationVersion)
          THEN {"attestationVersion"} ELSE {})

\* C14: the validation error of submitAttestation has one entry for each rule
\* the payload violates, and a payload that violates no rule is accepted.
C14_EveryViolatedRuleListedOnce ==
    (Called("submitAttestation") /\ ByLawyer(lastCall)
        /\ lastCall.error # AuditInsertError)
    => /\ Len(lastCall.errors) = Cardinality(ViolatedRules(lastCall.args))
       /\ (ViolatedRules(lastCall.args) = {}) = lastCall.ok

\* the payload supplies some required grant with the value false
SuppliesRequiredFalse(d) ==
    \E i \in DOMAIN REQUIRED_CONSENT_TYPES : d[REQUIRED_CONSENT_TYPES[i]] = "false"

\* what C15 promises of one updateMyConsent call
FailsIffRequiredFalse ==
    /\ (~lastCall'.ok) = SuppliesRequiredFalse(lastCall'.args)
    /\ (~lastCall'.ok) => (users' = users /\ consentAuditLog' = consentAuditLog)

\* C15 (as claimed): every updateMyConsent call fails exactly when its
\* payload supplies a required grant with the value false, and a failed call
\* leaves the stored consent and the audit log unchanged.
C15_AnyCaller ==
    [][(lastCall = Idle /\ lastCall'.op = "updateMyConsent")
       => FailsIffRequiredFalse]_vars

\* C15 (amended): the same for a call by an authenticated user; the endpoint
\* takes no version, so the version rule cannot fail it.
C15_FailsIffRequiredFalse ==
    [][(lastCall = Idle /\ lastCall'.op = "updateMyConsent"
            /\ requireUser(lastCall'.caller) = "")
       => FailsIffRequiredFalse]_vars

\* a refused required grant together with a marketing opt-in was rejected for
\* a user whose stored consent is untouched, after an update that supplied no
\* required grant had succeeded
C15_Witness ==
    /\ Called("updateMyConsent")
    /\ requireUser(lastCall.caller) = ""
    /\ ~lastCall.ok
    /\ lastCall.args.terms = "false"
    /\ lastCall.args.marketing = "true"
    /\ users[lastCall.caller].consent # <<>>
    /\ users[lastCall.caller].consent[1].marketing # "true"
    /\ lastCommit.op = "updateMyConsent"
    /\ lastCommit.args.terms = "undefined"

\* the events the step has appended to the audit log
Appended == SubSeq(consentAuditLog', Len(consentAuditLog) + 1, Len(consentAuditLog'))

\* the positions of `events` that hold the coarse event (no consentType)
CoarseEvents(events) ==
    {i \in DOMAIN events : "consentType" \notin DOMAIN events[i].metadata}

\* the positions of `events` that hold a per-field event for `ty`
FieldEvents(events, ty) ==
    {i \in DOMAIN events : /\ "consentType" \in DOMAIN events[i].metadata
                            /\ events[i].metadata.consentType = ty}

\* C16: a successful updateMyConsent appends exactly one coarse
\* consent_updated event, exactly one per-field event for each grant whose
\* value differs between the consent before and after the call, and no
\* per-field event for a grant whose value did not change.
C16_OneEventPerChangedField ==
    [][(lastCall = Idle /\ lastCall'.op = "updateMyConsent" /\ lastCall'.ok)
       => LET c == lastCall'.caller
          IN  /\ SubSeq(consentAuditLog', 1, Len(consentAuditLog)) = consentAuditLog
              /\ Cardinality(CoarseEvents(Appended)) = 1
              /\ \A i \in CoarseEvents(Appended) : Appended[i].event = CONSENT_UPDATED
              /\ \A i \in DOMAIN Appended : Appended[i].userId = c
              /\ \A ty \in Range(CONSENT_TYPES) :
                    Cardinality(FieldEvents(Appended, ty))
                      = IF FieldOf(users[c].consent, ty) # users'[c].consent[1][ty]
                        THEN 1 ELSE 0]_vars

\* an update that changed the three required grants and left marketing as it
\* was has logged the coarse event and three per-field events
C16_Witness ==
    /\ Called("updateMyConsent")
    /\ lastCall.ok
    /\ Len(lastCall.txLog) = 4
    /\ FieldEventTypes(lastCall.txLog) = Range(REQUIRED_CONSENT_TYPES)
    /\ Len(consentAuditLog) > 4
    /\ SubSeq(consentAuditLog, Len(consentAuditLog) - 3, Len(consentAuditLog))
         = lastCall.txLog

\* the number of times `d` occurs in `rows`
Count(rows, d) == Cardinality({i \in DOMAIN rows : rows[i] = d})

\* timestamps never increase along `rows`
NewestFirst(rows) ==
    \A i, j \in DOMAIN rows : i < j => rows[i].timestamp >= rows[j].timestamp

\* the event is of `userId`, of one of `kinds`, and inside the closed range
\* [from, to] of the options, where a bound that is not supplied is no bound
Matches(d, userId, kinds, options) ==
    /\ d.userId = userId
    /\ d.event \in kinds
    /\ options.fromTimestamp # <<>> => d.timestamp >= options.fromTimestamp[1]
    /\ options.toTimestamp # <<>> => d.timestamp <= options.toTimestamp[1]

\* `rows` holds exactly the events of the log that match, newest first
ExactlyMatching(rows, userId, kinds, options) ==
    /\ \A i \in DOMAIN rows : Matches(rows[i], userId, kinds, options)
    /\ \A i \in DOMAIN consentAuditLog :
          Matches(consentAuditLog[i], userId, kinds, options)
          => Count(rows, consentAuditLog[i]) = Count(consentAuditLog, consentAuditLog[i])
    /\ NewestFirst(rows)

AllEventKinds ==
    {TERMS_ACCEPTED, PRIVACY_ACCEPTED, CONSENT_WITHDRAWN, CONSENT_UPDATED,
     MARKETING_OPTED_IN, MARKETING_OPTED_OUT, ATTESTATION_SUBMITTED, ATTESTATION_UPDATED}

\* C17: audit retrieval without a limit returns exactly the caller's audit
\* events of the requested kind inside the closed range [from, to], newest
\* first; the attestation variant returns the caller's attestation_submitted
\* and attestation_updated events.
C17_AuditRetrievalFiltered ==
    /\ (Called("getMyConsentAuditLog") /\ requireUser(lastCall.caller) = ""
            /\ lastCall.args.limit = <<>>)
       => /\ lastCall.ok
          /\ ExactlyMatching(lastCall.ret[1], lastCall.caller,
                             IF lastCall.args.eventType = <<>> THEN AllEventKinds
                             ELSE {lastCall.args.eventType[1]},
                             lastCall.args)
    /\ (Called("getMyAttestationAuditLog") /\ requireLawyer(lastCall.caller) = ""
            /\ lastCall.args.limit = <<>>)
       => /\ lastCall.ok
          /\ ExactlyMatching(lastCall.ret[1], lastCall.caller,
                             {ATTESTATION_SUBMITTED, ATTESTATION_UPDATED}, lastCall.args)

\* the records the listing is about: all of them, or those with the flag
MatchingAttestations(lsaVerified) ==
    {i \in DOMAIN attestations :
        lsaVerified = <<>> \/ attestations[i].lsaVerified = lsaVerified[1]}

\* submission times never increase along `rows`
NewestAttestedFirst(rows) ==
    \A i, j \in DOMAIN rows : i < j => rows[i].attestedAt >= rows[j].attestedAt

\* the pages at offset, offset + limit, ... fetched while hasMore is true
RECURSIVE WalkPages(_, _, _)
WalkPages(limit, offset, lsaVerified) ==
    LET page == getAllAttestations(attestations,
                                   MkListing(<<limit>>, <<offset>>, lsaVerified))
    IN  page.attestations
        \o (IF page.hasMore THEN WalkPages(limit, offset + limit, lsaVerified) ELSE <<>>)

\* C18: for an admin, getAllAttestations returns the records at positions
\* offset to offset+limit-1 of the matching records sorted by submission time
\* descending, their number as total, and hasMore exactly when a matching
\* record lies beyond the page; the pages of that limit walked from offset 0
\* while hasMore is true hold every matching record exactly once; any other
\* caller is denied.
C18_PaginatedListing ==
    /\ Called("getAllAttestations")
       => IF lastCall.caller \in Users /\ users[lastCall.caller].userType = "admin"
          THEN LET limit == Default(lastCall.args.limit, DefaultLimit)
                   offset == Default(lastCall.args.offset, DefaultOffset)
                   matching == MatchingAttestations(lastCall.args.lsaVerified)
                   total == Cardinality(matching)
                   all == getAllAttestations(attestations,
                              MkListing(<<total + 1>>, <<0>>, lastCall.args.lsaVerified))
                   page == lastCall.ret[1]
               IN  /\ lastCall.ok
                   /\ page.total = total
                   /\ page.hasMore = (total > offset + limit)
                   /\ Len(all.attestations) = total
                   /\ NewestAttestedFirst(all.attestations)
                   /\ \A i \in matching : Count(all.attestations, attestations[i]) = 1
                   /\ Len(page.attestations)
                        = Cardinality({n \in 1..total : offset < n /\ n <= offset + limit})
                   /\ \A n \in DOMAIN page.attestations :
                         page.attestations[n] = all.attestations[offset + n]
          ELSE ~lastCall.ok /\ lastCall.ret = <<>>
    /\ (Called("getAllAttestations") /\ lastCall.ok)
       => LET limit == Default(lastCall.args.limit, DefaultLimit)
              v == lastCall.args.lsaVerified
          IN  /\ Len(WalkPages(limit, 0, v)) = Cardinality(MatchingAttestations(v))
              /\ \A i \in MatchingAttestations(v) :
                    Count(WalkPages(limit, 0, v), attestations[i]) = 1

\* an admin asked for the first page of one record when two records were
\* stored: the page holds the record submitted last and more pages follow
C18_Witness ==
    /\ Called("getAllAttestations")
    /\ lastCall.ok
    /\ lastCall.args = MkListing(<<1>>, <<>>, <<>>)
    /\ Len(attestations) = 2
    /\ attestations[2].attestedAt > attestations[1].attestedAt
    /\ lastCall.ret[1].attestations = <<attestations[2]>>
    /\ lastCall.ret[1].total = 2
    /\ lastCall.ret[1].hasMore

\* the caller is not an authenticated user with the lawyer role
NotALawyer(caller) == caller \notin Users \/ users[caller].userType # "lawyer"

\* C19: submitAttestation by an unauthenticated caller or by a user whose
\* role is not lawyer fails whatever the payload, with the error of the
\* authentication or role check and no validation error, and leaves the
\* attestation records and the audit log as they were.
C19_NonLawyerSubmitRejected ==
    [][(lastCall = Idle /\ lastCall'.op = "submitAttestation"
            /\ NotALawyer(lastCall'.caller))
       => /\ ~lastCall'.ok
          /\ lastCall'.error
               = IF lastCall'.caller \in Users
                 THEN "Only users with the 'lawyer' role can submit an attestation."
                 ELSE "Not authenticated"
          /\ lastCall'.errors = <<>>
          /\ attestations' = attestations
          /\ consentAuditLog' = consentAuditLog]_vars

\* an admin submitted a payload that also breaks validation rules, after a
\* lawyer had stored a record: the call was refused for the role
C19_Witness ==
    /\ Called("submitAttestation")
    /\ lastCall.caller \in Users
    /\ users[lastCall.caller].userType = "admin"
    /\ validateAttestationRequirements(lastCall.args) # <<>>
    /\ ~lastCall.ok
    /\ lastCall.errors = <<>>
    /\ attestations # <<>>
    /\ lastCall.caller \notin OwnersWithRecord(attestations)

\* the status of an owner's attestation: no record, a record with all six
\* required booleans true, or a record that lacks one
AttestationStatus(u) ==
    IF getCurrentAttestation(attestations, u) = <<>> THEN "NONE"
    ELSE IF hasValidAttestation(attestations, u) THEN "SUBMITTED"
    ELSE "NEEDS_UPDATE"

\* C20: every stored attestation record has all six required booleans true,
\* so an owner's status is NONE or SUBMITTED, never NEEDS_UPDATE, and
\* checkMyAttestationStatus never answers hasAttestation without isValid.
C20_StoredRecordsAllTrue ==
    /\ \A i \in DOMAIN attestations, k \in DOMAIN requiredTrueFields :
          attestations[i][requiredTrueFields[k]] = "true"
    /\ \A u \in Users : AttestationStatus(u) \in {"NONE", "SUBMITTED"}
    /\ (Called("checkMyAttestationStatus") /\ lastCall.ok)
       => (lastCall.ret[1].hasAttestation => lastCall.ret[1].isValid)

\* a lawyer who resubmitted asked for the status and has a valid record,
\* while the other lawyer has none
C20_Witness ==
    /\ Called("checkMyAttestationStatus")
    /\ lastCall.ok
    /\ lastCall.ret[1].hasAttestation
    /\ lastCall.ret[1].isValid
    /\ lastCommit.op = "submitAttestation"
    /\ lastCommit.caller = lastCall.caller
    /\ lastCommit.ret[1].isUpdate
    /\ AttestationStatus(lastCall.caller) = "SUBMITTED"
    /\ \E u \in Users : u # lastCall.caller /\ users[u].userType = "lawyer"
                          /\ AttestationStatus(u) = "NONE"

\* the attestation events of `u` in `log`, in insertion order
AttestationEventsOf(log, u) ==
    SelectSeq(log, LAMBDA d : d.userId = u
                              /\ d.event \in {ATTESTATION_SUBMITTED, ATTESTATION_UPDATED})

\* C21: a successful submitAttestation appends exactly one audit event, an
\* attestation event of the owner: attestation_submitted when the owner had no
\* record before the call, attestation_updated otherwise; no other step
\* changes the number of attestation events of any owner, so that number is
\* the number of the owner's successful submissions.
C21_OneEventPerSubmission ==
    [][IF lastCall = Idle /\ lastCall'.op = "submitAttestation" /\ lastCall'.ok
       THEN LET c == lastCall'.caller
            IN  /\ Len(consentAuditLog') = Len(consentAuditLog) + 1
                /\ SubSeq(consentAuditLog', 1, Len(consentAuditLog)) = consentAuditLog
                /\ consentAuditLog'[Len(consentAuditLog')].userId = c
                /\ consentAuditLog'[Len(consentAuditLog')].event
                     = IF c \in OwnersWithRecord(attestations)
                       THEN ATTESTATION_UPDATED ELSE ATTESTATION_SUBMITTED
                /\ c \in OwnersWithRecord(attestations')
                /\ Len(AttestationEventsOf(consentAuditLog', c))
                     = Len(AttestationEventsOf(consentAuditLog, c)) + 1
       ELSE \A u \in Users :
               AttestationEventsOf(consentAuditLog', u)
                 = AttestationEventsOf(consentAuditLog, u)]_vars

\* an owner's second successful submission: the owner's attestation events
\* are attestation_submitted followed by attestation_updated
C21_Witness ==
    /\ Called("submitAttestation")
    /\ lastCall.ok
    /\ lastCall.ret[1].isUpdate
    /\ Len(AttestationEventsOf(consentAuditLog, lastCall.caller)) = 2
    /\ AttestationEventsOf(consentAuditLog, lastCall.caller)[1].event = ATTESTATION_SUBMITTED
    /\ AttestationEventsOf(consentAuditLog, lastCall.caller)[2].event = ATTESTATION_UPDATED

\* the options `{ limit: 1 }`
LimitOne == MkOptions(<<1>>, <<>>, <<>>, <<>>)

\* C22: when the latest committed mutation is the caller's updateMyConsent
\* with marketing = false, getMyConsentAuditLog with limit 1 returns one
\* entry, a marketing_opted_out event.
C22_NewestIsOptOut ==
    (/\ Called("getMyConsentAuditLog")
     /\ lastCall.ok
     /\ lastCall.args = LimitOne
     /\ lastCommit.op = "updateMyConsent"
     /\ lastCommit.caller = lastCall.caller
     /\ lastCommit.args.marketing = "false")
    => /\ Len(lastCall.ret[1]) = 1
       /\ lastCall.ret[1][1].event = MARKETING_OPTED_OUT

\* the requested types hold marketing and at least one required grant
MixedWithdrawal(consentTypes) ==
    /\ "marketing" \in Range(consentTypes)
    /\ Range(consentTypes) \cap Range(REQUIRED_CONSENT_TYPES) # {}

\* C23: withdrawMyConsent whose requested types mix marketing with a required
\* grant fails and changes nothing: every user's consent (marketing grant and
\* timestamp included) and the audit log are as before the call.
C23_MixedWithdrawalHasNoEffect ==
    [][(lastCall = Idle /\ lastCall'.op = "withdrawMyConsent"
            /\ MixedWithdrawal(lastCall'.args.consentTypes))
       => /\ ~lastCall'.ok
          /\ users' = users
          /\ consentAuditLog' = consentAuditLog]_vars

\* a mixed withdrawal by a user whose marketing grant is true was refused for
\* its required grant, and the grant is still true
C23_Witness ==
    /\ Called("withdrawMyConsent")
    /\ MixedWithdrawal(lastCall.args.consentTypes)
    /\ lastCall.error = "Cannot withdraw required consents"
    /\ lastCall.txLog # <<>>
    /\ users[lastCall.caller].consent # <<>>
    /\ users[lastCall.caller].consent[1].marketing = "true"

\* the number of events of the log that match
MatchingCount(userId, kinds, options) ==
    Cardinality({i \in DOMAIN consentAuditLog :
                    Matches(consentAuditLog[i], userId, kinds, options)})

\* `rows` holds the `limit` newest matching events of the log, newest first
NewestMatching(rows, limit, userId, kinds, options) ==
    /\ Len(rows) <= limit
    /\ Len(rows) = Min({limit, MatchingCount(userId, kinds, options)})
    /\ \A i \in DOMAIN rows :
          /\ Matches(rows[i], userId, kinds, options)
          /\ Count(rows, rows[i]) <= Count(consentAuditLog, rows[i])
    /\ NewestFirst(rows)
    /\ \A i \in DOMAIN consentAuditLog :
          (Matches(consentAuditLog[i], userId, kinds, options)
             /\ Count(rows, consentAuditLog[i]) < Count(consentAuditLog, consentAuditLog[i]))
          => \A j \in DOMAIN rows : rows[j].timestamp >= consentAuditLog[i].timestamp

\* C24: audit retrieval with a limit returns at most limit entries, the limit
\* newest matching events, for every limit >= 0.
C24_LimitNewestEntries ==
    /\ (Called("getMyConsentAuditLog") /\ requireUser(lastCall.caller) = ""
            /\ lastCall.args.limit # <<>>)
       => /\ lastCall.ok
          /\ NewestMatching(lastCall.ret[1], lastCall.args.limit[1], lastCall.caller,
                            IF lastCall.args.eventType = <<>> THEN AllEventKinds
                            ELSE {lastCall.args.eventType[1]},
                            lastCall.args)
    /\ (Called("getMyAttestationAuditLog") /\ requireLawyer(lastCall.caller) = ""
            /\ lastCall.args.limit # <<>>)
       => /\ lastCall.ok
          /\ NewestMatching(lastCall.ret[1], lastCall.args.limit[1], lastCall.caller,
                            {ATTESTATION_SUBMITTED, ATTESTATION_UPDATED}, lastCall.args)

\* the request names marketing, once or more, and nothing else
OnlyMarketingRequested(consentTypes) ==
    consentTypes # <<>> /\ Range(consentTypes) = {"marketing"}

\* C25: withdrawMyConsent that requests only marketing, by a user who has a
\* consent record, succeeds whether or not a marketing grant is stored; it
\* removes the marketing grant, keeps terms, privacy, dataProcessing and
\* version, sets the timestamp to the time of the call and appends one
\* marketing_opted_out event of the caller per requested entry.
C25_MarketingWithdrawal ==
    [][(/\ lastCall = Idle
        /\ lastCall'.op = "withdrawMyConsent"
        /\ OnlyMarketingRequested(lastCall'.args.consentTypes)
        /\ requireUser(lastCall'.caller) = ""
        /\ users[lastCall'.caller].consent # <<>>)
       => LET c == lastCall'.caller
              old == users[c].consent[1]
              new == users'[c].consent[1]
          IN  /\ lastCall'.ok
              /\ users'[c].consent # <<>>
              /\ new.marketing = "undefined"
              /\ \A ty \in Range(REQUIRED_CONSENT_TYPES) : new[ty] = old[ty]
              /\ new.version = old.version
              /\ new.timestamp = now
              /\ Len(Appended) = Len(lastCall'.args.consentTypes)
              /\ consentAuditLog' = consentAuditLog \o Appended
              /\ \A i \in DOMAIN Appended :
                    /\ Appended[i].userId = c
                    /\ Appended[i].event = MARKETING_OPTED_OUT
                    /\ Appended[i].timestamp = now]_vars

\* marketing was withdrawn twice in one request by a user whose marketing
\* grant was already absent, at a later time than the stored timestamp
C25_Witness ==
    /\ Called("withdrawMyConsent")
    /\ lastCall.ok
    /\ lastCall.args.consentTypes = <<"marketing", "marketing">>
    /\ Len(lastCall.txLog) = 2
    /\ lastCall.txLog[1].metadata.previousValue = "undefined"
    /\ lastCall.ret[1].timestamp = 1
    /\ users[lastCall.caller].consent[1].marketing = "undefined"

\* C26: a successful updateMyConsent stores the payload's value for every
\* grant the payload supplies; a grant the payload leaves out keeps its stored
\* value, where a required grant with no stored value becomes false and
\* marketing with no stored value stays absent; version is the current
\* consent version and timestamp the time of the call.
C26_OnlySuppliedGrantsChange ==
    [][(lastCall = Idle /\ lastCall'.op = "updateMyConsent" /\ lastCall'.ok)
       => LET c == lastCall'.caller
              args == lastCall'.args
              old == users[c].consent
              new == users'[c].consent[1]
          IN  /\ users'[c].consent # <<>>
              /\ \A ty \in Range(CONSENT_TYPES) :
                    new[ty] = IF args[ty] # "undefined" THEN args[ty]
                              ELSE IF old # <<>> /\ old[1][ty] # "undefined" THEN old[1][ty]
                              ELSE IF ty \in Range(REQUIRED_CONSENT_TYPES) THEN "false"
                              ELSE "undefined"
              /\ new.version = CURRENT_CONSENT_VERSION
              /\ new.timestamp = now
              /\ lastCall'.ret = <<new>>]_vars

\* a user without a consent record supplied privacy alone: terms became
\* false, marketing stayed absent, and the record carries the time of the call
C26_Witness ==
    /\ Called("updateMyConsent")
    /\ lastCall.ok
    /\ lastCall.args = [NoGrant EXCEPT !["privacy"] = "true"]
    /\ lastCall.txLog[1].metadata.previousConsent = <<>>
    /\ users[lastCall.caller].consent[1].terms = "false"
    /\ users[lastCall.caller].consent[1].privacy = "true"
    /\ users[lastCall.caller].consent[1].marketing = "undefined"
    /\ users[lastCall.caller].consent[1].timestamp = 1

\* the rows of `table` owned by `u`, in table order
OwnedBy(table, u) == SelectSeq(table, LAMBDA d : d.userId = u)

\* C27: a mutation run by one caller leaves every other user's consent,
\* attestation records and audit events as they were, and a "my" query
\* answers with the caller's own data only: the caller's attestation record,
\* the status of that record, the caller's consent, the caller's audit events.
C27_OwnDataOnly ==
    [][/\ (lastCall = Idle /\ lastCall'.op \in Mutations)
          => \A b \in Users \ {lastCall'.caller} :
                /\ users'[b] = users[b]
                /\ OwnedBy(attestations', b) = OwnedBy(attestations, b)
                /\ OwnedBy(consentAuditLog', b) = OwnedBy(consentAuditLog, b)
       /\ (lastCall = Idle /\ lastCall'.ok /\ lastCall'.op = "getMyAttestation")
          => lastCall'.ret[1] = OwnedBy(attestations, lastCall'.caller)
       /\ (lastCall = Idle /\ lastCall'.ok /\ lastCall'.op = "checkMyAttestationStatus")
          => LET own == OwnedBy(attestations, lastCall'.caller)
             IN  /\ lastCall'.ret[1].hasAttestation = (own # <<>>)
                 /\ lastCall'.ret[1].attestedAt = [i \in DOMAIN own |-> own[i].attestedAt]
                 /\ lastCall'.ret[1].lsaVerified = [i \in DOMAIN own |-> own[i].lsaVerified]
       /\ (lastCall = Idle /\ lastCall'.ok /\ lastCall'.op = "getMyConsent")
          => lastCall'.ret[1] = users[lastCall'.caller].consent
       /\ (lastCall = Idle /\ lastCall'.ok
              /\ lastCall'.op \in {"getMyConsentAuditLog", "getMyAttestationAuditLog"})
          => \A i \in DOMAIN lastCall'.ret[1] :
                /\ lastCall'.ret[1][i].userId = lastCall'.caller
                /\ \E j \in DOMAIN consentAuditLog : consentAuditLog[j] = lastCall'.ret[1][i]
      ]_vars

\* lawyerB, who holds an attestation record, reads the audit log after
\* lawyerA's consent update was the latest commit, and gets a non-empty answer
\* shorter than the log
C27_Witness ==
    /\ Called("getMyConsentAuditLog")
    /\ lastCall.ok
    /\ lastCall.caller = "lawyerB"
    /\ lastCall.ret[1] # <<>>
    /\ Len(lastCall.ret[1]) < Len(consentAuditLog)
    /\ lastCommit.op = "updateMyConsent"
    /\ lastCommit.caller = "lawyerA"
    /\ OwnedBy(attestations, "lawyerB") # <<>>

\* the store step of the transaction patched a row of its snapshot (it added
\* no row)
StorePatched(p) == Len(tx[p].view) = Len(tx[p].snapshot)

\* C28: under every interleaving of concurrent submissions, once a run has
\* done its store step its isUpdate flag is true exactly when the store step
\* patched; and when the run commits, the flag is true exactly when the
\* commit rewrites the owner's existing record and false exactly when it adds
\* the owner's first record, and the one event it appends is
\* attestation_updated or attestation_submitted accordingly.
C28_FlagAgreesWithStore ==
    [][\A p \in Procs :
         /\ tx[p].pc \in {"log", "commit"} => (tx[p].isUpdate <=> StorePatched(p))
         /\ (tx[p].pc = "commit" /\ tx'[p].pc = "done" /\ tx'[p].ok)
            => /\ tx'[p].isUpdate = tx[p].isUpdate
               /\ tx[p].isUpdate <=> tx[p].caller \in OwnersWithRecord(attestations)
               /\ tx[p].isUpdate <=> Len(attestations') = Len(attestations)
               /\ ~tx[p].isUpdate <=> Len(attestations') = Len(attestations) + 1
               /\ Len(Appended) = 1
               /\ Appended[1].userId = tx[p].caller
               /\ Appended[1].metadata.isUpdate = tx[p].isUpdate
               /\ Appended[1].event = IF tx[p].isUpdate THEN ATTESTATION_UPDATED
                                      ELSE ATTESTATION_SUBMITTED]_vars

\* two runs for one owner both looked up before either committed; the second
\* was run again after the first one's insert and committed as an update
C28_Witness ==
    /\ \A p \in Procs : tx[p].pc = "done" /\ tx[p].ok
    /\ tx["p1"].caller = tx["p2"].caller
    /\ ~tx["p1"].isUpdate
    /\ tx["p2"].retried
    /\ tx["p2"].isUpdate
    /\ Len(consentAuditLog) = 2
    /\ consentAuditLog[1].event = ATTESTATION_SUBMITTED
    /\ consentAuditLog[2].event = ATTESTATION_UPDATED
    /\ Cardinality(ByUser(attestations, tx["p2"].caller)) = 1

\* the literals of the `event` union of the consentAuditLog table
SchemaEventKinds ==
    {"terms_accepted", "privacy_accepted", "consent_withdrawn", "consent_updated",
     "marketing_opted_in", "marketing_opted_out", "data_export_requested",
     "deletion_requested"}

\* C29: every event in the audit log, and every event a call wrote in its
\* transaction, has a kind that the consentAuditLog table declares.
C29_EventKindsDeclared ==
    /\ \A i \in DOMAIN consentAuditLog : consentAuditLog[i].event \in SchemaEventKinds
    /\ \A i \in DOMAIN lastCall.txLog : lastCall.txLog[i].event \in SchemaEventKinds

\* C30: when a successful updateMyConsent follows, with no commit in between,
\* a successful updateMyConsent of the same caller with the same payload, the
\* second call leaves terms, privacy, dataProcessing, marketing and version as
\* the first one stored them and appends one event only, the coarse
\* consent_updated event.
C30_SecondUpdateChangesNoGrant ==
    [][(/\ lastCall = Idle
        /\ lastCall'.op = "updateMyConsent"
        /\ lastCall'.ok
        /\ lastCommit.op = "updateMyConsent"
        /\ lastCommit.caller = lastCall'.caller
        /\ lastCommit.args = lastCall'.args)
       => LET c == lastCall'.caller
              first == lastCommit.ret[1]
              second == users'[c].consent[1]
          IN  /\ users[c].consent = <<first>>
              /\ \A ty \in Range(CONSENT_TYPES) : second[ty] = first[ty]
              /\ second.version = first.version
              /\ Len(Appended) = 1
              /\ Appended[1].event = CONSENT_UPDATED
              /\ "consentType" \notin DOMAIN Appended[1].metadata
              /\ FieldEventTypes(Appended) = {}]_vars

\* a user without a consent record granted everything twice in a row, at
\* different times: the first call logged per-field events, the second only
\* the coarse one
C30_Witness ==
    /\ Called("updateMyConsent")
    /\ lastCall.ok
    /\ lastCommit.op = "updateMyConsent"
    /\ lastCommit.caller = lastCall.caller
    /\ lastCommit.args = lastCall.args
    /\ lastCall.args = [ty \in Range(CONSENT_TYPES) |-> "true"]
    /\ Len(lastCommit.txLog) = 5
    /\ Len(lastCall.txLog) = 1
    /\ lastCall.ret[1].timestamp > lastCommit.ret[1].timestamp

=============================================================================
